---- MODULE Spec2Model ----
(***************************************************************************)
(* Model of Trivial Todo (src/todo.py): the shelve-backed reminder store,  *)
(* the Reminder record with its partial-match __eq__, serial allocation,   *)
(* and the add / delete / remove / edit operations.                        *)
(*                                                                         *)
(* Python's None is modelled as the empty set and a present value v as the *)
(* singleton {v}, so that "x is None" is x = {} and two optional values    *)
(* compare with plain equality.                                            *)
(*                                                                         *)
(* The caller holds one Reminder object at a time (cur): the one built by  *)
(* the latest Reminder(...) call.  It stays in the caller's hands after an *)
(* add or a delete, so the same object can be added or deleted again.      *)
(* The shelve stores pickled copies, so an edit of the stored copy leaves  *)
(* the caller's object as it was.                                          *)
(***************************************************************************)
EXTENDS Integers, Sequences, FiniteSets, TLC

\* ---- bounds of the model ----
MaxSerial == 2      \* constructions explored
MaxStored == 2      \* stored entries explored (add is not taken beyond it)

\* ---- optional values ----
None == {}
Some(v) == {v}
Val(x) == CHOOSE v \in x : TRUE

\* ---- input domains ----
Today == 0
Contents == {"a", "b"}
ContentArgs == {None} \cup {Some(c) : c \in Contents}
CategoryArgs == {None, Some(""), Some("work"), Some("serial")}
DueArgs == {None, Some(1)}
DateArgs == {None}

VARIABLES
    store,      \* the shelve: key -> value ('serial' -> int, category -> list)
    cur,        \* the Reminder object the caller holds (None before the first construction)
    issued,     \* serials returned by Reminder.next_serial, in order
    added,      \* Some(reminders appended by add_reminder, in order) while adds alone
                \* have changed the category lists; None afterwards
    op,         \* the operation that ran last
    args,       \* the arguments of a remove or edit that got to change the store
    result,     \* "ok" or the name of the exception it raised
    sessions    \* the functions whose `with _load_reminders()` block the last
                \* operation entered, in order: one store session each

vars == <<store, cur, issued, added, op, args, result, sessions>>

\* ---- the shelve (a persistent dict) ----
EmptyStore == [k \in {} |-> 0]
Get(s, k, default) == IF k \in DOMAIN s THEN s[k] ELSE default
Put(s, k, v) == [x \in (DOMAIN s) \cup {k} |-> IF x = k THEN v ELSE s[x]]
Del(s, k) == [x \in (DOMAIN s) \ {k} |-> s[x]]

\* ---- Reminder ----
\* (mutant) the counter is incremented but not written back
next_serial_nowrite(s) ==
    [serial |-> Get(s, "serial", 0) + 1, store |-> s]

\* Reminder.next_serial: the new counter value and the store written back
next_serial(s) ==
    LET serial == Get(s, "serial", 0) + 1
    IN  [serial |-> serial, store |-> Put(s, "serial", serial)]

\* Reminder.__init__ given the serial next_serial returned
Reminder(serial, content, category, date_due, date) ==
    [serial   |-> serial,
     date     |-> IF date # None THEN date ELSE Some(Today),
     content  |-> content,
     category |-> IF category # None /\ Val(category) # "" THEN category ELSE Some("general"),
     date_due |-> date_due]

\* the attributes Reminder.__eq__ walks
EqAttribs_withDate == <<"content", "category", "date_due", "date">>
EqAttribs == <<"content", "category", "date_due">>

\* "self_attr is None or other_attr is None": the attribute is skipped
AttrSkipped_selfOnly(self_attr, other_attr) == self_attr = None
AttrSkipped(self_attr, other_attr) == self_attr = None \/ other_attr = None

\* the for loop of Reminder.__eq__ over the remaining attributes
RECURSIVE EqLoop(_, _, _)
EqLoop(self, other, attribs) ==
    IF attribs = <<>> THEN TRUE
    ELSE LET self_attr == self[Head(attribs)]
             other_attr == other[Head(attribs)]
         IN  IF AttrSkipped(self_attr, other_attr)
             THEN EqLoop(self, other, Tail(attribs))
             ELSE IF self_attr # other_attr THEN FALSE
             ELSE EqLoop(self, other, Tail(attribs))

\* Reminder.__eq__
ReminderEq(self, other) == EqLoop(self, other, EqAttribs)

\* ---- store access (the "implementation details" of todo.py) ----
\* the value under 'serial' is the counter, an int and not a list
IsCounter(s, k) == k = "serial" /\ k \in DOMAIN s

\* the keys _iter_reminders walks: reminders.keys() without 'serial'
CategoryKeys(s) == (DOMAIN s) \ {"serial"}

\* the orders in which reminders.keys() may enumerate the categories
\* (the dbm's key order is not defined by the program)
KeyOrders(s) ==
    LET K == CategoryKeys(s)
        n == Cardinality(K)
    IN  {q \in [1..n -> K] : \A i, j \in 1..n : q[i] = q[j] => i = j}

RECURSIVE chain(_, _)
chain(s, order) ==
    IF order = <<>> THEN <<>> ELSE s[Head(order)] \o chain(s, Tail(order))

\* _iter_reminders, with the categories enumerated in the given order
_iter_reminders(s, order) == chain(s, order)

\* the reminders _iter_reminders yields, as a set of (key, index) positions
Entries(s) == UNION {{<<k, i>> : i \in 1..Len(s[k])} : k \in CategoryKeys(s)}

StoredCount(s) == Cardinality(Entries(s))

\* (mutant) the new reminder is put in front of the list
_append_reminder_prepend(s, reminder) ==
    LET key == Val(reminder.category)
    IN  IF IsCounter(s, key)
        THEN [err |-> "AttributeError", store |-> s]
        ELSE [err |-> "ok",
              store |-> Put(s, key, <<reminder>> \o Get(s, key, <<>>))]

\* (mutant) the reminder is always filed under 'general'
_append_reminder_general(s, reminder) ==
    [err |-> "ok",
     store |-> Put(s, "general", Append(Get(s, "general", <<>>), reminder))]

\* _append_reminder: the store afterwards, or the exception raised
_append_reminder(s, reminder) ==
    LET key == Val(reminder.category)
    IN  IF IsCounter(s, key)
        THEN [err |-> "AttributeError", store |-> s]
        ELSE [err |-> "ok",
              store |-> Put(s, key, Append(Get(s, key, <<>>), reminder))]

\* (mutant) the last item equal to x is the one found
FirstMatch_last(temp, x) ==
    IF \E i \in 1..Len(temp) : ReminderEq(temp[i], x)
    THEN CHOOSE i \in 1..Len(temp) :
            /\ ReminderEq(temp[i], x)
            /\ \A j \in (i + 1)..Len(temp) : ~ReminderEq(temp[j], x)
    ELSE 0

\* list.remove(x): drops the first item equal to x (by __eq__)
FirstMatch(temp, x) ==
    IF \E i \in 1..Len(temp) : ReminderEq(temp[i], x)
    THEN CHOOSE i \in 1..Len(temp) :
            /\ ReminderEq(temp[i], x)
            /\ \A j \in 1..(i - 1) : ~ReminderEq(temp[j], x)
    ELSE 0

\* (mutant) the last item is dropped whatever matched
ListRemoveAt_pop(temp, i) == SubSeq(temp, 1, Len(temp) - 1)

\* the list without its i-th item
ListRemoveAt(temp, i) ==
    [j \in 1..(Len(temp) - 1) |-> IF j < i THEN temp[j] ELSE temp[j + 1]]

\* (mutant) the shortened list is always written back, the key never deleted
_remove_reminder_keepkey(s, reminder) ==
    LET key == Val(reminder.category)
        temp == Get(s, key, <<>>)
        i == FirstMatch(temp, reminder)
    IN  IF IsCounter(s, key) THEN [err |-> "AttributeError", store |-> s]
        ELSE IF i = 0 THEN [err |-> "ValueError", store |-> s]
        ELSE [err |-> "ok", store |-> Put(s, key, ListRemoveAt(temp, i))]

\* (mutant) emptying a list clears the whole shelve, the counter included
_remove_reminder_clear(s, reminder) ==
    LET key == Val(reminder.category)
        temp == Get(s, key, <<>>)
        i == FirstMatch(temp, reminder)
    IN  IF IsCounter(s, key) THEN [err |-> "AttributeError", store |-> s]
        ELSE IF i = 0 THEN [err |-> "ValueError", store |-> s]
        ELSE IF ListRemoveAt(temp, i) = <<>> THEN [err |-> "ok", store |-> EmptyStore]
        ELSE [err |-> "ok", store |-> Put(s, key, ListRemoveAt(temp, i))]

\* _remove_reminder: the store afterwards, or the exception raised
_remove_reminder(s, reminder) ==
    LET key == Val(reminder.category)
    IN  IF IsCounter(s, key)
        THEN [err |-> "AttributeError", store |-> s]
        ELSE LET temp == Get(s, key, <<>>)
                 i == FirstMatch(temp, reminder)
             IN  IF i = 0
                 THEN [err |-> "ValueError", store |-> s]
                 ELSE LET rest == ListRemoveAt(temp, i)
                      IN  [err |-> "ok",
                           store |-> IF rest = <<>> THEN Del(s, key)
                                     ELSE Put(s, key, rest)]

\* ---- workhorse functions ----
\* (mutant) a field that is None on the stored side counts as a match
search_field_partial(s, order, target, field) ==
    SelectSeq(_iter_reminders(s, order),
              LAMBDA r : target = r[field] \/ (field # "serial" /\ r[field] = None))

\* search_field: the matches, in iteration order (an empty list raises)
search_field(s, order, target, field) ==
    SelectSeq(_iter_reminders(s, order), LAMBDA r : target = r[field])

\* ---- str ----
\* the characters of the strings used as contents and search texts
StrChars ==
    [c \in {"a", "b", "B", "ab"} |->
        CASE c = "a"  -> <<"a">>
          [] c = "b"  -> <<"b">>
          [] c = "B"  -> <<"B">>
          [] c = "ab" -> <<"a", "b">>]

\* str.lower(), character by character
LowerChar == [c \in {"a", "b", "B"} |-> IF c = "B" THEN "b" ELSE c]
Lower(chars) == [i \in 1..Len(chars) |-> LowerChar[chars[i]]]

\* "target in search" on two strings
Contains(target, search) ==
    \E i \in 0..(Len(search) - Len(target)) :
        SubSeq(search, i + 1, i + Len(target)) = target

\* the for loop of search_in_content over the remaining reminders
RECURSIVE ContentLoop(_, _, _, _)
ContentLoop(items, target, case_insensitive, matches) ==
    IF items = <<>> THEN [err |-> "ok", matches |-> matches]
    ELSE LET reminder == Head(items)
         IN  IF reminder.content = None
             THEN \* None.lower() or "target in None"
                  [err |-> IF case_insensitive THEN "AttributeError" ELSE "TypeError",
                   matches |-> <<>>]
             ELSE LET search == IF case_insensitive
                                THEN Lower(StrChars[Val(reminder.content)])
                                ELSE StrChars[Val(reminder.content)]
                  IN  ContentLoop(Tail(items), target, case_insensitive,
                                  IF Contains(target, search)
                                  THEN Append(matches, reminder) ELSE matches)

\* search_in_content(content, case_insensitive)
search_in_content(s, order, content, case_insensitive) ==
    LET target == IF case_insensitive THEN Lower(StrChars[content])
                  ELSE StrChars[content]
    IN  ContentLoop(_iter_reminders(s, order), target, case_insensitive, <<>>)

\* (mutant) only the very same reminder, serial and date included, counts
reminder_exists_identity(s, reminder) ==
    \E k \in CategoryKeys(s) : \E i \in 1..Len(s[k]) : s[k][i] = reminder

\* reminder_exists: some item _iter_reminders yields equals the reminder
\* (whatever the key order)
reminder_exists(s, reminder) ==
    \E k \in CategoryKeys(s) : \E i \in 1..Len(s[k]) : ReminderEq(s[k][i], reminder)

\* (mutant) the duplicate check is skipped
add_reminder_nocheck(s, reminder) == _append_reminder(s, reminder)

\* add_reminder
add_reminder(s, reminder) ==
    IF reminder_exists(s, reminder)
    THEN [err |-> "ReminderExistsException", store |-> s]
    ELSE _append_reminder(s, reminder)

\* (mutant) the existence check is skipped
delete_reminder_nocheck(s, reminder) == _remove_reminder(s, reminder)

\* delete_reminder
delete_reminder(s, reminder) ==
    IF ~reminder_exists(s, reminder)
    THEN [err |-> "ReminderDoesNotExistException", store |-> s]
    ELSE _remove_reminder(s, reminder)

\* (mutant) the comparisons of --after and --before are exchanged
DueKept_swapped(due, date, after, before) ==
    IF after /\ due <= date THEN TRUE
    ELSE IF before /\ due >= date THEN TRUE
    ELSE due = date

\* the elif chain of search(args) on a reminder that has a due date
DueKept(due, date, after, before) ==
    IF after /\ due >= date THEN TRUE
    ELSE IF before /\ due <= date THEN TRUE
    ELSE due = date

\* the for loop of search(args) over the remaining reminders
RECURSIVE DueLoop(_, _, _, _, _)
DueLoop(reminders, date, after, before, matches) ==
    IF reminders = <<>> THEN matches
    ELSE LET reminder == Head(reminders)
         IN  DueLoop(Tail(reminders), date, after, before,
                     IF reminder.date_due = None THEN matches
                     ELSE IF DueKept(Val(reminder.date_due), date, after, before)
                     THEN Append(matches, reminder)
                     ELSE matches)

\* search(args): the 'search' subcommand, up to the list handed to _print_results;
\* date_due is parse_date(args.date_due), None without --due
search(s, order, content, insensitive, date_due, after, before) ==
    LET base == IF content # None
                THEN search_in_content(s, order, Val(content), insensitive)
                ELSE [err |-> "ok", matches |-> <<>>]
    IN  IF base.err # "ok" THEN base
        ELSE IF date_due # None /\ base.matches # <<>>
        THEN [err |-> "ok",
              matches |-> DueLoop(base.matches, Val(date_due), after, before, <<>>)]
        ELSE base

\* remove(args): the 'remove' subcommand; confirmed is args.confirm or _confirm()
remove(s, order, serial, confirmed) ==
    LET found == search_field(s, order, serial, "serial")
    IN  IF found = <<>>
        THEN [err |-> "ReminderDoesNotExistException", store |-> s]
        ELSE IF confirmed THEN _remove_reminder(s, found[1])
             ELSE [err |-> "ok", store |-> s]

\* edit(args): the 'edit' subcommand; text is what the editor left in the file
edit(s, order, serial, text) ==
    LET found == search_field(s, order, serial, "serial")
    IN  IF found = <<>>
        THEN [err |-> "ReminderDoesNotExistException", store |-> s]
        ELSE LET reminder == found[1]
                 removed == _remove_reminder(s, reminder)
             IN  IF removed.err # "ok" THEN removed
                 ELSE IF reminder.content = None
                 THEN [err |-> "TypeError", store |-> removed.store]
                 ELSE _append_reminder(removed.store,
                                       [reminder EXCEPT !.content = Some(text)])

\* ---- store sessions: every `with _load_reminders()` block opens the shelve
\* and closes it on leaving the block ----
next_serial_sessions == <<"next_serial">>
_iter_reminders_sessions == <<"_iter_reminders">>
_append_reminder_sessions == <<"_append_reminder">>
_remove_reminder_sessions == <<"_remove_reminder">>
reminder_exists_sessions == _iter_reminders_sessions
search_field_sessions == _iter_reminders_sessions
search_in_content_sessions == _iter_reminders_sessions

\* add_reminder: reminder_exists, then _append_reminder unless it raised
add_reminder_sessions(s, reminder) ==
    reminder_exists_sessions \o
        (IF reminder_exists(s, reminder) THEN <<>> ELSE _append_reminder_sessions)

\* delete_reminder: reminder_exists, then _remove_reminder unless it raised
delete_reminder_sessions(s, reminder) ==
    reminder_exists_sessions \o
        (IF reminder_exists(s, reminder) THEN _remove_reminder_sessions ELSE <<>>)

\* remove(args): search_field, then _remove_reminder when confirmed
remove_sessions(s, order, serial, confirmed) ==
    search_field_sessions \o
        (IF search_field(s, order, serial, "serial") # <<>> /\ confirmed
         THEN _remove_reminder_sessions ELSE <<>>)

\* edit(args): search_field, _remove_reminder, then _append_reminder
edit_sessions(s, order, serial) ==
    LET found == search_field(s, order, serial, "serial")
    IN  search_field_sessions \o
        (IF found = <<>> THEN <<>>
         ELSE _remove_reminder_sessions \o
              (IF _remove_reminder(s, found[1]).err = "ok" /\ found[1].content # None
               THEN _append_reminder_sessions ELSE <<>>))

\* search(args): search_in_content when CONTENT is given
search_sessions(content) ==
    IF content # None THEN search_in_content_sessions ELSE <<>>

\* ---- the state machine ----
Init ==
    /\ store = EmptyStore
    /\ cur = None
    /\ issued = <<>>
    /\ added = Some(<<>>)
    /\ op = "init"
    /\ args = <<>>
    /\ result = "ok"
    /\ sessions = <<>>

\* r = Reminder(content, category, date_due, date)
Construct ==
    /\ Len(issued) < MaxSerial
    /\ \E content \in ContentArgs, category \in CategoryArgs,
          date_due \in DueArgs, date \in DateArgs :
          LET n == next_serial(store)
          IN  /\ store' = n.store
              /\ cur' = Some(Reminder(n.serial, content, category, date_due, date))
              /\ issued' = Append(issued, n.serial)
              /\ op' = "construct"
              /\ args' = <<>>
              /\ result' = "ok"
              /\ sessions' = next_serial_sessions
              /\ UNCHANGED added

\* add_reminder(r) on the reminder the caller holds
Add ==
    /\ cur # None
    /\ LET out == add_reminder(store, Val(cur))
       IN  /\ StoredCount(out.store) <= MaxStored
           /\ store' = out.store
           /\ result' = out.err
           /\ added' = IF added # None /\ out.err = "ok"
                       THEN Some(Append(Val(added), Val(cur))) ELSE added
    /\ op' = "add"
    /\ sessions' = add_reminder_sessions(store, Val(cur))
    /\ args' = <<>>
    /\ UNCHANGED <<cur, issued>>

\* delete_reminder(r) on the reminder the caller holds
Delete ==
    /\ cur # None
    /\ LET out == delete_reminder(store, Val(cur))
       IN  /\ store' = out.store
           /\ result' = out.err
           /\ added' = IF out.store # store THEN None ELSE added
    /\ op' = "delete"
    /\ sessions' = delete_reminder_sessions(store, Val(cur))
    /\ args' = <<>>
    /\ UNCHANGED <<cur, issued>>

\* todo remove NUMBER [--yes]
Remove ==
    \E serial \in 1..MaxSerial, confirmed \in BOOLEAN, order \in KeyOrders(store) :
        LET out == remove(store, order, serial, confirmed)
        IN  /\ store' = out.store
            /\ result' = out.err
            /\ added' = IF out.store # store THEN None ELSE added
            /\ op' = "remove"
            /\ sessions' = remove_sessions(store, order, serial, confirmed)
            /\ args' = IF confirmed /\ out.err = "ok" THEN <<serial>> ELSE <<>>
            /\ UNCHANGED <<cur, issued>>

\* todo edit NUMBER
Edit ==
    \E serial \in 1..MaxSerial, text \in Contents, order \in KeyOrders(store) :
        LET out == edit(store, order, serial, text)
        IN  /\ store' = out.store
            /\ result' = out.err
            /\ added' = IF out.store # store THEN None ELSE added
            /\ op' = "edit"
            /\ sessions' = edit_sessions(store, order, serial)
            /\ args' = IF out.err = "ReminderDoesNotExistException" THEN <<>>
                        ELSE <<serial, text>>
            /\ UNCHANGED <<cur, issued>>

Next == Construct \/ Add \/ Delete \/ Remove \/ Edit

Spec == Init /\ [][Next]_vars

\* the library used without the 'remove' and 'edit' subcommands
NextNoEdit == Construct \/ Add \/ Delete

SpecNoEdit == Init /\ [][NextNoEdit]_vars

\* ---- Reminder.__eq__ as a pure function: a == b on constructed reminders ----
EqReminders ==
    {Reminder(n, content, category, date_due, date) :
        n \in 1..2, content \in ContentArgs, category \in {None, Some("work")},
        date_due \in DueArgs, date \in {None, Some(1)}}

EqThird ==
    {Reminder(3, content, category, date_due, None) :
        content \in ContentArgs, category \in {None, Some("work")},
        date_due \in DueArgs}

InitEq ==
    /\ store = EmptyStore
    /\ cur = None
    /\ issued = <<>>
    /\ added = Some(<<>>)
    /\ op = "init"
    /\ result = "ok"
    /\ sessions = <<>>
    /\ \E a \in EqReminders, b \in EqReminders, c \in EqThird : args = <<a, b, c>>

\* evaluates a == a, a == b, b == a, b == c and a == c
Compare ==
    /\ op = "init"
    /\ op' = "__eq__"
    /\ result' = [aa |-> ReminderEq(args[1], args[1]),
                  ab |-> ReminderEq(args[1], args[2]),
                  ba |-> ReminderEq(args[2], args[1]),
                  bc |-> ReminderEq(args[2], args[3]),
                  ac |-> ReminderEq(args[1], args[3])]
    /\ UNCHANGED <<store, cur, issued, added, args, sessions>>

NextEq == Compare

SpecEq == InitEq /\ [][NextEq]_vars

\* ---- the searches as functions of a store filled by Reminder(...) and add_reminder ----
SearchContents == {"ab", "B"}
SearchDues == {1, 3}
SearchCalls ==
    {<<content, category, date_due>> :
        content \in {None} \cup {Some(c) : c \in SearchContents},
        category \in {None, Some("work")},
        date_due \in {None} \cup {Some(d) : d \in SearchDues}}

\* the state after r = Reminder(content, category, date_due); add_reminder(r)
\* for each call in turn, starting from a new shelve
RECURSIVE Build(_)
Build(calls) ==
    IF calls = <<>>
    THEN [store |-> EmptyStore, cur |-> None, issued |-> <<>>, added |-> Some(<<>>)]
    ELSE LET prev == Build(SubSeq(calls, 1, Len(calls) - 1))
             c == calls[Len(calls)]
             n == next_serial(prev.store)
             r == Reminder(n.serial, c[1], c[2], c[3], None)
             out == add_reminder(n.store, r)
         IN  [store |-> out.store,
              cur |-> Some(r),
              issued |-> Append(prev.issued, n.serial),
              added |-> IF out.err = "ok" THEN Some(Append(Val(prev.added), r))
                        ELSE prev.added]

InitSearch ==
    /\ \E n \in 0..MaxStored : \E calls \in [1..n -> SearchCalls] :
          LET b == Build(calls)
          IN  /\ store = b.store
              /\ cur = b.cur
              /\ issued = b.issued
              /\ added = b.added
    /\ op = "init"
    /\ args = <<>>
    /\ result = "ok"
    /\ sessions = <<>>

\* the values search_field is asked for, per field
FieldTargets ==
    [serial   |-> 1..(MaxStored + 1),
     content  |-> {None} \cup {Some(c) : c \in SearchContents},
     category |-> {Some("general"), Some("work")},
     date_due |-> {None} \cup {Some(d) : d \in SearchDues}]

\* search_field(target, field)
SearchField ==
    /\ op = "init"
    /\ \E field \in DOMAIN FieldTargets : \E target \in FieldTargets[field] :
       \E order \in KeyOrders(store) :
          LET matches == search_field(store, order, target, field)
          IN  /\ op' = "search_field"
              /\ sessions' = search_field_sessions
              /\ args' = <<target, field, order>>
              /\ result' = IF matches = <<>>
                           THEN [err |-> "ReminderDoesNotExistException", matches |-> <<>>]
                           ELSE [err |-> "ok", matches |-> matches]
    /\ UNCHANGED <<store, cur, issued, added>>

\* search_in_content(content, case_insensitive)
SearchTexts == {"a", "b", "B"}

SearchContent ==
    /\ op = "init"
    /\ \E content \in SearchTexts, case_insensitive \in BOOLEAN,
          order \in KeyOrders(store) :
          /\ op' = "search_in_content"
          /\ sessions' = search_in_content_sessions
          /\ args' = <<content, case_insensitive, order>>
          /\ result' = search_in_content(store, order, content, case_insensitive)
    /\ UNCHANGED <<store, cur, issued, added>>

\* todo search [CONTENT] [--due DATE] [--before] [--after] [--ignore-case]
SearchDates == {None, Some(2), Some(3)}
SearchArgs ==
    {<<None, FALSE, Some(2), FALSE, FALSE>>} \cup
    {<<Some("b"), insensitive, date_due, after, before>> :
        insensitive \in BOOLEAN, date_due \in SearchDates,
        after \in BOOLEAN, before \in BOOLEAN}

Search ==
    /\ op = "init"
    /\ \E a \in SearchArgs, order \in KeyOrders(store) :
          /\ op' = "search"
          /\ sessions' = search_sessions(a[1])
          /\ args' = <<a[1], a[2], a[3], a[4], a[5], order>>
          /\ result' = search(store, order, a[1], a[2], a[3], a[4], a[5])
    /\ UNCHANGED <<store, cur, issued, added>>

NextSearch == SearchField \/ SearchContent \/ Search

SpecSearch == InitSearch /\ [][NextSearch]_vars

\* ---- parse_date: date expressions as sequences of characters ----
\* datetime.date: a date is its proleptic Gregorian ordinal (date.toordinal())
MaxOrdinal == 3652059       \* date.max.toordinal()

IsLeap(y) == y % 4 = 0 /\ (y % 100 # 0 \/ y % 400 = 0)

DaysInMonth(y, m) ==
    IF m = 2 THEN (IF IsLeap(y) THEN 29 ELSE 28)
    ELSE IF m \in {4, 6, 9, 11} THEN 30 ELSE 31

RECURSIVE DaysBeforeMonth(_, _)
DaysBeforeMonth(y, m) ==
    IF m = 1 THEN 0 ELSE DaysBeforeMonth(y, m - 1) + DaysInMonth(y, m - 1)

DaysBeforeYear(y) ==
    (y - 1) * 365 + ((y - 1) \div 4) - ((y - 1) \div 100) + ((y - 1) \div 400)

\* datetime.date(year, month, day) raises ValueError unless this holds
ValidDate(year, month, day) ==
    /\ year \in 1..9999
    /\ month \in 1..12
    /\ day >= 1
    /\ day <= DaysInMonth(year, month)

\* datetime.date(year, month, day) for valid arguments
Date(year, month, day) == DaysBeforeYear(year) + DaysBeforeMonth(year, month) + day

\* date + timedelta(days=n): the date, or OverflowError out of date.min..date.max
DatePlus(date, n) ==
    IF date + n < 1 \/ date + n > MaxOrdinal
    THEN [err |-> "OverflowError", date |-> 0]
    ELSE [err |-> "ok", date |-> date + n]

\* str.count(ch)
Count(q, ch) == Cardinality({i \in 1..Len(q) : q[i] = ch})

\* str.split(ch)
RECURSIVE Split(_, _)
Split(q, ch) ==
    IF Count(q, ch) = 0 THEN <<q>>
    ELSE LET i == CHOOSE k \in 1..Len(q) :
                    q[k] = ch /\ \A j \in 1..(k - 1) : q[j] # ch
         IN  <<SubSeq(q, 1, i - 1)>> \o Split(SubSeq(q, i + 1, Len(q)), ch)

\* str.split(): the runs of characters between blanks
SplitBlanks(q) == SelectSeq(Split(q, " "), LAMBDA part : part # <<>>)

\* str.strip()
RECURSIVE Strip(_)
Strip(q) ==
    IF q = <<>> THEN q
    ELSE IF Head(q) = " " THEN Strip(Tail(q))
    ELSE IF q[Len(q)] = " " THEN Strip(SubSeq(q, 1, Len(q) - 1))
    ELSE q

DigitVal ==
    [c \in {"0", "1", "2", "3", "4", "5", "6", "7", "8", "9"} |->
        CASE c = "0" -> 0 [] c = "1" -> 1 [] c = "2" -> 2 [] c = "3" -> 3
          [] c = "4" -> 4 [] c = "5" -> 5 [] c = "6" -> 6 [] c = "7" -> 7
          [] c = "8" -> 8 [] c = "9" -> 9]

RECURSIVE DigitsValue(_)
DigitsValue(q) ==
    IF q = <<>> THEN 0
    ELSE DigitsValue(SubSeq(q, 1, Len(q) - 1)) * 10 + DigitVal[q[Len(q)]]

\* int(text): Some(value), or None where int raises ValueError
IntOf(text) ==
    LET t == Strip(text)
        signed == t # <<>> /\ Head(t) \in {"-", "+"}
        body == IF signed THEN Tail(t) ELSE t
    IN  IF body = <<>> \/ \E i \in 1..Len(body) : body[i] \notin DOMAIN DigitVal
        THEN None
        ELSE Some(IF signed /\ Head(t) = "-" THEN 0 - DigitsValue(body)
                  ELSE DigitsValue(body))

InvalidDate == [err |-> "InvalidDateException", date |-> 0]
ValueError == [err |-> "ValueError", date |-> 0]

\* (mutant) the day/month exchange is not tried
convert_noswap(day, month, year) ==
    IF ValidDate(year, month, day)
    THEN [err |-> "ok", date |-> Date(year, month, day)]
    ELSE InvalidDate

\* convert(day, month, year) inside _parse_absolute_date
convert(day, month, year) ==
    IF ValidDate(year, month, day)
    THEN [err |-> "ok", date |-> Date(year, month, day)]
    ELSE IF ValidDate(year, day, month)
    THEN [err |-> "ok", date |-> Date(year, day, month)]
    ELSE InvalidDate

\* list.remove(year) on the three numbers: the other two, in order
WithoutFirst(date_list, year) ==
    LET i == CHOOSE k \in 1..Len(date_list) :
                date_list[k] = year /\ \A j \in 1..(k - 1) : date_list[j] # year
    IN  [j \in 1..(Len(date_list) - 1) |->
            IF j < i THEN date_list[j] ELSE date_list[j + 1]]

\* _parse_absolute_date(date, sep); today is datetime.date.today()
_parse_absolute_date(date, sep, today) ==
    LET parts == Split(date, sep)
    IN  IF Count(date, sep) = 1
        THEN LET month == parts[1]
                 day == parts[2]
             IN  IF IntOf(day) = None \/ IntOf(month) = None THEN ValueError
                 ELSE convert(Val(IntOf(day)), Val(IntOf(month)), today.year)
        ELSE IF Count(date, sep) = 2
        THEN IF \E i \in 1..3 : IntOf(parts[i]) = None THEN ValueError
             ELSE LET date_list == [i \in 1..3 |-> Val(IntOf(parts[i]))]
                      year == CHOOSE y \in {date_list[i] : i \in 1..3} :
                                  \A i \in 1..3 : date_list[i] <= y
                      rest == WithoutFirst(date_list, year)
                  IN  convert(rest[2], rest[1], year)
        ELSE InvalidDate

\* the keys of the dict `relative` and the days each stands for
RelativeDays(time) ==
    IF time = <<"d", "a", "y", "s">> THEN Some(1)
    ELSE IF time = <<"w", "e", "e", "k", "s">> THEN Some(7)
    ELSE None

\* _parse_relative_date(date)
_parse_relative_date(date, today) ==
    LET words == SplitBlanks(date)
    IN  IF Len(words) # 2 THEN InvalidDate      \* unpacking raises ValueError, caught
        ELSE LET number == words[1]
                 time == IF RelativeDays(Append(words[2], "s")) # None
                         THEN Append(words[2], "s") ELSE words[2]
             IN  IF RelativeDays(time) = None THEN InvalidDate
                 ELSE IF IntOf(number) = None THEN InvalidDate  \* ValueError, caught
                 ELSE DatePlus(Date(today.year, today.month, today.day),
                               Val(IntOf(number)) * Val(RelativeDays(time)))

\* parse_date(date)
parse_date(date, today) ==
    IF date = <<"t", "o", "d", "a", "y">>
    THEN [err |-> "ok", date |-> Date(today.year, today.month, today.day)]
    ELSE IF date = <<"t", "o", "m", "o", "r", "r", "o", "w">>
    THEN DatePlus(Date(today.year, today.month, today.day), 1)
    ELSE IF Count(date, "/") > 0 THEN _parse_absolute_date(date, "/", today)
    ELSE IF Count(date, ".") > 0 THEN _parse_absolute_date(date, ".", today)
    ELSE IF Count(date, "-") > 0 THEN _parse_absolute_date(date, "-", today)
    ELSE IF Count(date, " ") > 0 THEN _parse_relative_date(date, today)
    ELSE InvalidDate

\* ---- the expressions parse_date is given ----
\* str(n) for the numbers used
RECURSIVE NumberText(_)
NumberText(n) ==
    IF n < 0 THEN <<"-">> \o NumberText(0 - n)
    ELSE IF n < 10 THEN <<CHOOSE c \in DOMAIN DigitVal : DigitVal[c] = n>>
    ELSE Append(NumberText(n \div 10),
                CHOOSE c \in DOMAIN DigitVal : DigitVal[c] = n % 10)

\* a component of an expression: a number as text, or text that is no number
Number(n) == [text |-> NumberText(n), num |-> Some(n)]
NoNumber(text) == [text |-> text, num |-> None]

AbsoluteParts ==
    {Number(n) : n \in {0, 2, 3, 8, 13, 29, 31, 2013, 2024}} \cup
    {NoNumber(<<"x">>), NoNumber(<<>>)}
Separators == {"/", ".", "-"}
RelativeNumbers ==
    {Number(n) : n \in {-1, 0, 1, 5}} \cup {NoNumber(<<"x">>)}
UnitWords ==
    {<<"d", "a", "y">>, <<"d", "a", "y", "s">>, <<"w", "e", "e", "k">>,
     <<"w", "e", "e", "k", "s">>, <<"d", "a", "y", "s", "s">>, <<"y", "e", "a", "r">>}
Words ==
    {<<"t", "o", "d", "a", "y">>, <<"t", "o", "m", "o", "r", "r", "o", "w">>,
     <<"n", "o", "w">>, <<>>}

\* the expression, with how it was put together
DateInputs ==
    {[kind |-> "word", parts |-> <<>>, sep |-> "", text |-> w] : w \in Words}
    \cup
    {[kind |-> "absolute", parts |-> <<a, b>>, sep |-> sep,
      text |-> a.text \o <<sep>> \o b.text] :
        a \in AbsoluteParts, b \in AbsoluteParts, sep \in Separators}
    \cup
    {[kind |-> "absolute", parts |-> <<a, b, c>>, sep |-> sep,
      text |-> a.text \o <<sep>> \o b.text \o <<sep>> \o c.text] :
        a \in AbsoluteParts, b \in AbsoluteParts, c \in AbsoluteParts,
        sep \in Separators}
    \cup
    {[kind |-> "absolute", parts |-> <<a, a, a, a>>, sep |-> sep,
      text |-> a.text \o <<sep>> \o a.text \o <<sep>> \o a.text \o <<sep>> \o a.text] :
        a \in {Number(3)}, sep \in Separators}
    \cup
    {[kind |-> "relative", parts |-> <<n>>, sep |-> " ", text |-> n.text \o <<" ">> \o u,
      unit |-> u] :
        n \in RelativeNumbers, u \in UnitWords}
    \cup
    {[kind |-> "relative3", parts |-> <<n>>, sep |-> " ",
      text |-> n.text \o <<" ">> \o u \o <<" ">> \o u] :
        n \in {Number(1)}, u \in {<<"d", "a", "y", "s">>}}

Todays ==
    {[year |-> 2026, month |-> 11, day |-> 2],
     [year |-> 2024, month |-> 2, day |-> 28]}

InitDate ==
    /\ store = EmptyStore
    /\ cur = None
    /\ issued = <<>>
    /\ added = Some(<<>>)
    /\ op = "init"
    /\ result = "ok"
    /\ sessions = <<>>
    /\ \E input \in DateInputs, today \in Todays : args = <<input, today>>

\* parse_date(date)
ParseDate ==
    /\ op = "init"
    /\ op' = "parse_date"
    /\ result' = parse_date(args[1].text, args[2])
    /\ UNCHANGED <<store, cur, issued, added, args, sessions>>

NextDate == ParseDate

SpecDate == InitDate /\ [][NextDate]_vars

\* ---- properties ----
CategoryNames == {"general", "work"}

\* the stored reminders that partially match the target
Matches(s, target) == {e \in Entries(s) : ReminderEq(s[e[1]][e[2]], target)}
MatchCount(s, target) == Cardinality(Matches(s, target))

\* how often x occurs in the sequence q
Occurrences(q, x) == Cardinality({i \in 1..Len(q) : q[i] = x})

\* C1: the serials returned by successive constructions are 1, 2, 3, ... whatever
\* adds, deletes, removes and edits ran in between: each is one greater than the
\* one before, so they are increasing, distinct and never issued twice.
C1_SerialsConsecutive == \A i \in 1..Len(issued) : issued[i] = i

\* a construction after the store was emptied again by a delete, remove or edit
C1_Witness ==
    /\ op = "construct"
    /\ Len(issued) >= 2
    /\ added = None
    /\ CategoryKeys(store) = {}

\* C2 (as claimed): add_reminder(r) on a store where nothing matches r succeeds,
\* and reminder_exists(r) is true afterwards, for every category name.
C2_AddThenExists ==
    [][(op' = "add" /\ cur # None /\ ~reminder_exists(store, Val(cur)))
        => (result' = "ok" /\ reminder_exists(store', Val(cur)))]_vars

\* C3 (as claimed): after a successful delete_reminder(t), reminder_exists(t) is
\* false, also when t matches several stored reminders.
C3_DeleteThenNotExists ==
    [][(op' = "delete" /\ result' = "ok")
        => ~reminder_exists(store', Val(cur))]_vars

\* C3 (amended): a successful delete_reminder(t) takes exactly one of the stored
\* reminders matching t away; reminder_exists(t) is false afterwards exactly
\* when one stored reminder matched t before.
C3_DeleteRemovesOneMatch ==
    [][(op' = "delete" /\ result' = "ok")
        => /\ MatchCount(store', Val(cur)) = MatchCount(store, Val(cur)) - 1
           /\ reminder_exists(store', Val(cur)) <=> (MatchCount(store, Val(cur)) > 1)]_vars

\* a delete of the only match, with another reminder left in the same list
C3_Witness ==
    /\ op = "delete"
    /\ result = "ok"
    /\ ~reminder_exists(store, Val(cur))
    /\ Val(Val(cur).category) \in DOMAIN store

\* C4: add_reminder(r) raises ReminderExistsException exactly when a stored
\* reminder partially matches r, and then leaves the whole store as it was.
C4_AddFailsIffExists ==
    [][op' = "add"
        => /\ (result' = "ReminderExistsException") <=> reminder_exists(store, Val(cur))
           /\ reminder_exists(store, Val(cur)) => store' = store]_vars

\* an add refused because of a stored reminder that matches only through an absent field
C4_Witness ==
    /\ op = "add"
    /\ result = "ReminderExistsException"
    /\ \E e \in Matches(store, Val(cur)) :
          store[e[1]][e[2]].content # Val(cur).content

\* C5: delete_reminder(t) raises ReminderDoesNotExistException exactly when no
\* stored reminder partially matches t, and then leaves the whole store as it
\* was; when a stored reminder matches, it completes without an exception.
C5_DeleteFailsIffAbsent ==
    [][op' = "delete"
        => /\ (result' = "ReminderDoesNotExistException") <=> ~reminder_exists(store, Val(cur))
           /\ ~reminder_exists(store, Val(cur)) => store' = store
           /\ reminder_exists(store, Val(cur)) => result' = "ok"]_vars

\* a delete refused on a store that holds other reminders
C5_Witness ==
    /\ op = "delete"
    /\ result = "ReminderDoesNotExistException"
    /\ StoredCount(store) > 0

\* C6: no category key maps to an empty list, and reading a category that has no
\* key gives the empty list.
C6_NoEmptyPartition ==
    \A k \in CategoryNames :
        /\ k \in DOMAIN store => store[k] # <<>>
        /\ k \notin DOMAIN store => Get(store, k, <<>>) = <<>>

\* the last reminder of a category was just deleted; another category remains
C6_Witness ==
    /\ op = "delete"
    /\ result = "ok"
    /\ Val(Val(cur).category) \notin DOMAIN store
    /\ CategoryKeys(store) # {}

\* C7: a == a holds, a == b and b == a agree, and there are reminders x, y, z
\* with x == y and y == z but not x == z.
C7_ReflexiveSymmetricNotTransitive ==
    op = "__eq__" =>
        /\ result.aa
        /\ result.ab = result.ba
        /\ \E x, y, z \in {Reminder(3, c, None, None, None) : c \in ContentArgs} :
              ReminderEq(x, y) /\ ReminderEq(y, z) /\ ~ReminderEq(x, z)

\* a == b and b == c but not a == c
C7_Witness ==
    /\ op = "__eq__"
    /\ result.ab
    /\ result.bc
    /\ ~result.ac

\* C8: a == b is true exactly when, for each of content, category and date_due,
\* one side is None or both are equal; serial and date do not change the answer.
C8_EqCharacterised ==
    op = "__eq__" =>
        LET a == args[1]
            b == args[2]
        IN  /\ result.ab = (\A f \in {"content", "category", "date_due"} :
                               a[f] = None \/ b[f] = None \/ a[f] = b[f])
            /\ \A n \in 1..3, d \in {Some(Today), Some(1)} :
                  ReminderEq([a EXCEPT !.serial = n, !.date = d], b) = result.ab

\* a match through an absent content between reminders of different serial and date
C8_Witness ==
    /\ op = "__eq__"
    /\ result.ab
    /\ args[1].serial # args[2].serial
    /\ args[1].date # args[2].date
    /\ args[1].content = None
    /\ args[2].content # None

\* C9: while only adds have filled the store, _iter_reminders yields exactly the
\* reminders added (each as often as added, nothing else) in every key order,
\* and every category list holds its reminders in the order they were added.
C9_IterYieldsAdded ==
    added # None =>
        /\ \A order \in KeyOrders(store) :
              LET items == _iter_reminders(store, order)
              IN  /\ Len(items) = Len(Val(added))
                  /\ \A i \in 1..Len(items) :
                        Occurrences(items, items[i]) = Occurrences(Val(added), items[i])
        /\ \A k \in CategoryKeys(store) :
              store[k] = SelectSeq(Val(added), LAMBDA r : r.category = Some(k))

\* two reminders added to two categories
C9_Witness ==
    /\ added # None
    /\ op = "add"
    /\ result = "ok"
    /\ Len(Val(added)) = 2
    /\ Cardinality(CategoryKeys(store)) = 2

\* C10: every stored reminder is in the list under its own category, and no
\* serial is stored under two category keys.
C10_StoredUnderOwnCategory ==
    /\ \A e \in Entries(store) : store[e[1]][e[2]].category = Some(e[1])
    /\ \A e, f \in Entries(store) :
          store[e[1]][e[2]].serial = store[f[1]][f[2]].serial => e[1] = f[1]

\* an edit has put a reminder back while two categories are stored
C10_Witness ==
    /\ op = "edit"
    /\ result = "ok"
    /\ Cardinality(CategoryKeys(store)) = 2

\* q holds exactly the items of the sequence `items` that satisfy Keep, in the
\* order of `items`
IsFilterOf(q, items, Keep(_)) ==
    \E f \in [1..Len(q) -> 1..Len(items)] :
        /\ \A i \in 1..Len(q) : q[i] = items[f[i]]
        /\ \A i, j \in 1..Len(q) : i < j => f[i] < f[j]
        /\ \A j \in 1..Len(items) : Keep(items[j]) <=> (\E i \in 1..Len(q) : f[i] = j)

\* C11: search_field(target, field) returns exactly the reminders whose field is
\* equal to the target (a None field matches a None target only), in iteration
\* order, and raises ReminderDoesNotExistException exactly when there is none.
C11_SearchFieldExact ==
    op = "search_field" =>
        LET target == args[1]
            field == args[2]
            items == _iter_reminders(store, args[3])
            Hit(r) == r[field] = target
        IN  /\ (result.err = "ReminderDoesNotExistException")
                  <=> ~(\E e \in Entries(store) : Hit(store[e[1]][e[2]]))
            /\ result.err \in {"ok", "ReminderDoesNotExistException"}
            /\ result.err = "ok" => IsFilterOf(result.matches, items, Hit)

\* a search by content that returns one reminder while another stored reminder
\* has no content
C11_Witness ==
    /\ op = "search_field"
    /\ args[2] = "content"
    /\ args[1] # None
    /\ result.err = "ok"
    /\ \E e \in Entries(store) : store[e[1]][e[2]].content = None

\* C12 (as claimed): search_in_content(text) never raises, whatever is stored,
\* and returns exactly the stored reminders whose content contains the text
\* (possibly none).
C12_SearchContentNeverFails ==
    (op = "search_in_content" /\ ~args[2]) =>
        LET text == StrChars[args[1]]
            items == _iter_reminders(store, args[3])
            Hit(r) == r.content # None /\ Contains(text, StrChars[Val(r.content)])
        IN  /\ result.err = "ok"
            /\ IsFilterOf(result.matches, items, Hit)

\* C13: with a date d given, search(args) returns exactly the reminders of the
\* content search's result that have a due date and are due on d (no flag),
\* on or before d (--before), on or after d (--after).
C13_DateBoundedSearch ==
    (op = "search" /\ result.err = "ok" /\ args[3] # None /\ ~(args[4] /\ args[5])) =>
        LET d == Val(args[3])
            after == args[4]
            before == args[5]
            base == IF args[1] = None THEN <<>>
                    ELSE search_in_content(store, args[6], Val(args[1]), args[2]).matches
            Hit(r) == /\ r.date_due # None
                      /\ IF after THEN Val(r.date_due) >= d
                         ELSE IF before THEN Val(r.date_due) <= d
                         ELSE Val(r.date_due) = d
        IN  IsFilterOf(result.matches, base, Hit)

\* a --before search that keeps an earlier reminder and drops one of the
\* content search's result
C13_Witness ==
    /\ op = "search"
    /\ result.err = "ok"
    /\ args[3] = Some(2)
    /\ args[5] /\ ~args[4]
    /\ Len(result.matches) = 1
    /\ result.matches[1].date_due = Some(1)
    /\ StoredCount(store) = 2
    /\ Len(search_in_content(store, args[6], Val(args[1]), args[2]).matches) = 2

\* the numbers of an expression whose components are all numbers
PartNumbers(input) == [i \in 1..Len(input.parts) |-> Val(input.parts[i].num)]
AllNumbers(input) == \A i \in 1..Len(input.parts) : input.parts[i].num # None

\* year, month and day as the absolute form is read: two components are month
\* and day of the current year; of three, the (first) largest is the year and
\* the other two, in order, are month and day
AbsoluteReading(input, today) ==
    LET n == PartNumbers(input)
    IN  IF Len(n) = 2 THEN [year |-> today.year, month |-> n[1], day |-> n[2]]
        ELSE IF n[1] >= n[2] /\ n[1] >= n[3] THEN [year |-> n[1], month |-> n[2], day |-> n[3]]
        ELSE IF n[2] >= n[3] THEN [year |-> n[2], month |-> n[1], day |-> n[3]]
        ELSE [year |-> n[3], month |-> n[1], day |-> n[2]]

DayUnits == {<<"d", "a", "y">>, <<"d", "a", "y", "s">>}
WeekUnits == {<<"w", "e", "e", "k">>, <<"w", "e", "e", "k", "s">>}

\* the expression is a date form: today, tomorrow, two or three numbers that
\* give a calendar date in one of the two readings, or "N day(s)/week(s)"
Recognised(input, today) ==
    \/ input.kind = "word" /\ input.text \in
          {<<"t", "o", "d", "a", "y">>, <<"t", "o", "m", "o", "r", "r", "o", "w">>}
    \/ /\ input.kind = "absolute"
       /\ Len(input.parts) \in {2, 3}
       /\ AllNumbers(input)
       /\ LET r == AbsoluteReading(input, today)
          IN  ValidDate(r.year, r.month, r.day) \/ ValidDate(r.year, r.day, r.month)
    \/ /\ input.kind = "relative"
       /\ AllNumbers(input)
       /\ input.unit \in DayUnits \cup WeekUnits

\* C14 (as claimed): parse_date raises InvalidDateException, and nothing else,
\* on every expression that is not a date form.
C14_OnlyInvalidDate ==
    (op = "parse_date" /\ ~Recognised(args[1], args[2]))
        => result.err = "InvalidDateException"

\* C15: an absolute expression of two or three numbers gives month/day of the
\* current year, or of the largest number as year, with month and day exchanged
\* when the first reading is no calendar date; the separator makes no difference.
C15_AbsoluteDate ==
    (op = "parse_date" /\ args[1].kind = "absolute"
        /\ Len(args[1].parts) \in {2, 3} /\ AllNumbers(args[1])) =>
        LET r == AbsoluteReading(args[1], args[2])
        IN  result = IF ValidDate(r.year, r.month, r.day)
                     THEN [err |-> "ok", date |-> Date(r.year, r.month, r.day)]
                     ELSE IF ValidDate(r.year, r.day, r.month)
                     THEN [err |-> "ok", date |-> Date(r.year, r.day, r.month)]
                     ELSE [err |-> "InvalidDateException", date |-> 0]

\* three numbers with a dash, read with month and day exchanged
C15_Witness ==
    /\ op = "parse_date"
    /\ args[1].kind = "absolute"
    /\ args[1].sep = "-"
    /\ Len(args[1].parts) = 3
    /\ AllNumbers(args[1])
    /\ result.err = "ok"
    /\ LET r == AbsoluteReading(args[1], args[2])
       IN  ~ValidDate(r.year, r.month, r.day) /\ result.date = Date(r.year, r.day, r.month)

\* C16 (as claimed): "today" is the current date, "tomorrow" the day after, and
\* "N day(s)" / "N week(s)" the current date plus N / 7*N days for every integer N.
C16_RelativeDate ==
    op = "parse_date" =>
        LET input == args[1]
            today == Date(args[2].year, args[2].month, args[2].day)
        IN  /\ input.text = <<"t", "o", "d", "a", "y">>
                => result = [err |-> "ok", date |-> today]
            /\ input.text = <<"t", "o", "m", "o", "r", "r", "o", "w">>
                => result = [err |-> "ok", date |-> today + 1]
            /\ (input.kind = "relative" /\ AllNumbers(input) /\ input.unit \in DayUnits)
                => result = [err |-> "ok", date |-> today + PartNumbers(input)[1]]
            /\ (input.kind = "relative" /\ AllNumbers(input) /\ input.unit \in WeekUnits)
                => result = [err |-> "ok", date |-> today + 7 * PartNumbers(input)[1]]

\* C17 (as claimed): every engine operation (serial allocation, add, delete)
\* opens the store exactly once and does all its work inside that one session.
C17_OneSessionPerOperation ==
    op \in {"construct", "add", "delete"} => Len(sessions) = 1

\* C18: a successful delete_reminder(t) removes one entry, the first of the list
\* of t's category that partially matches t; the other entries of that list keep
\* their order, and every other list and the serial counter stay as they were.
C18_DeleteRemovesFirstInPartition ==
    [][(op' = "delete" /\ result' = "ok") =>
        LET t == Val(cur)
            key == Val(t.category)
        IN  /\ key \in DOMAIN store
            /\ \E i \in 1..Len(store[key]) :
                  /\ ReminderEq(store[key][i], t)
                  /\ \A j \in 1..(i - 1) : ~ReminderEq(store[key][j], t)
                  /\ Get(store', key, <<>>) =
                        SubSeq(store[key], 1, i - 1) \o
                        SubSeq(store[key], i + 1, Len(store[key]))
            /\ (DOMAIN store') \ {key} = (DOMAIN store) \ {key}
            /\ \A k \in (DOMAIN store) \ {key} : store'[k] = store[k]]_vars

\* a delete that took the first of two matching entries: the later one is left
C18_Witness ==
    /\ op = "delete"
    /\ result = "ok"
    /\ cur # None
    /\ reminder_exists(store, Val(cur))
    /\ Len(Get(store, Val(Val(cur).category), <<>>)) = 1
    /\ "serial" \in DOMAIN store

\* the reminders a store holds, and those of them with a given serial
Stored(s) == {s[e[1]][e[2]] : e \in Entries(s)}
WithSerial(s, n) == {e \in Entries(s) : s[e[1]][e[2]].serial = n}

\* C19 (as claimed): a confirmed remove of serial n takes the stored reminder
\* with serial n away and no other: afterwards no stored reminder has serial n
\* and every stored reminder with another serial is still stored.
C19_RemoveBySerial ==
    [][(op' = "remove" /\ args' # <<>>) =>
        LET n == args'[1]
        IN  /\ WithSerial(store', n) = {}
            /\ \A r \in Stored(store) : r.serial # n => r \in Stored(store')]_vars

\* C20 (as claimed): edit of serial n with new content c replaces that reminder
\* only: afterwards exactly one stored reminder has serial n, with content c and
\* the category and due date it had, the number of stored reminders is the same
\* and every reminder with another serial is stored unchanged.
C20_EditReplacesOne ==
    [][(op' = "edit" /\ args' # <<>>) =>
        LET n == args'[1]
            c == args'[2]
        IN  /\ Cardinality(WithSerial(store', n)) = 1
            /\ \A e \in WithSerial(store', n) :
                  /\ store'[e[1]][e[2]].content = Some(c)
                  /\ \E old \in Stored(store) :
                        /\ old.serial = n
                        /\ old.category = store'[e[1]][e[2]].category
                        /\ old.date_due = store'[e[1]][e[2]].date_due
            /\ StoredCount(store') = StoredCount(store)
            /\ \A r \in Stored(store) : r.serial # n => r \in Stored(store')]_vars

\* C21 (as claimed): whatever constructions, adds, deletes, removes and edits
\* ran, no two stored reminders have the same serial.
C21_StoredSerialsDistinct ==
    \A e1 \in Entries(store), e2 \in Entries(store) :
        e1 # e2 => store[e1[1]][e1[2]].serial # store[e2[1]][e2[2]].serial

\* C22: after constructions, adds and deletes alone, no two different stored
\* entries partially match each other, so a target that is itself stored
\* matches exactly one stored entry (itself).
C22_NoTwoStoredMatch ==
    /\ \A e1 \in Entries(store), e2 \in Entries(store) :
          e1 # e2 => ~ReminderEq(store[e1[1]][e1[2]], store[e2[1]][e2[2]])
    /\ \A e \in Entries(store) : Matches(store, store[e[1]][e[2]]) = {e}

\* two reminders stored side by side, the second accepted by add_reminder
C22_Witness ==
    /\ op = "add"
    /\ result = "ok"
    /\ StoredCount(store) = 2
    /\ \E k \in CategoryKeys(store) : Len(store[k]) = 2

\* C23: only a construction changes the value under the key 'serial', and it
\* changes no category list; add, delete, remove and edit leave the counter as
\* it was, also for a reminder of category 'serial', and every stored reminder's
\* serial lies between 1 and the counter.
C23_CounterFrame ==
    [][/\ op' = "construct" =>
            /\ Get(store', "serial", 0) # Get(store, "serial", 0)
            /\ Del(store', "serial") = Del(store, "serial")
       /\ op' # "construct" =>
            /\ ("serial" \in DOMAIN store') <=> ("serial" \in DOMAIN store)
            /\ Get(store', "serial", 0) = Get(store, "serial", 0)
       /\ \A r \in Stored(store') :
            r.serial >= 1 /\ r.serial <= Get(store', "serial", 0)]_vars

\* an add of a reminder of category 'serial' next to stored reminders, after
\* which the counter still holds the last serial issued
C23_Witness ==
    /\ op = "add"
    /\ result = "AttributeError"
    /\ cur # None
    /\ Val(cur).category = Some("serial")
    /\ CategoryKeys(store) # {}
    /\ store["serial"] = Val(cur).serial
    /\ Val(cur).serial = 2
====
